---- MODULE Spec2Model ----
(***************************************************************************)
(* Model of the bulk-import flow of app_streamlit.py: column mapping        *)
(* confirmation, the global-information form, fallback fill, required-field *)
(* validation and the bulk append to the quotations table.                  *)
(*                                                                          *)
(* One action is one run of the Streamlit page script with one widget       *)
(* interaction.  Cell values are sequences of one-character strings so that *)
(* strip() and lower() are computed, not assumed.                           *)
(***************************************************************************)
EXTENDS Integers, Sequences, FiniteSets, TLC

(* ------------------------------------------------------------------------ *)
(* Values                                                                   *)
(* ------------------------------------------------------------------------ *)

\* A missing cell of a DataFrame (pd.NA / float NaN).
Null == <<"<NA>">>

\* The Python object None (what normalize_cell returns for an empty cell, and
\* the value of g_currency when the currency selectbox is not rendered).
PyNone == <<"<None>">>

\* pd.isna(x)
isna(x) == x \in {Null, PyNone}

UpperChars == <<"A","B","C","D","E","F","G","H","I","J","K","L","M",
                "N","O","P","Q","R","S","T","U","V","W","X","Y","Z">>
LowerChars == <<"a","b","c","d","e","f","g","h","i","j","k","l","m",
                "n","o","p","q","r","s","t","u","v","w","x","y","z">>

\* str.lower() on one character
LowerChar(c) ==
    IF \E i \in DOMAIN UpperChars : UpperChars[i] = c
    THEN LowerChars[CHOOSE i \in DOMAIN UpperChars : UpperChars[i] = c]
    ELSE c

\* str.lower()
lower(s) == [i \in 1..Len(s) |-> LowerChar(s[i])]

RECURSIVE lstrip(_)
lstrip(s) == IF s = <<>> THEN s
             ELSE IF Head(s) = " " THEN lstrip(Tail(s)) ELSE s

RECURSIVE rstrip(_)
rstrip(s) == IF s = <<>> THEN s
             ELSE IF s[Len(s)] = " " THEN rstrip(SubSeq(s, 1, Len(s) - 1)) ELSE s

\* str.strip()
strip(s) == rstrip(lstrip(s))

STR_nan  == <<"n","a","n">>
STR_none == <<"n","o","n","e">>

\* The default NA strings of pandas.read_csv that the model's alphabet can
\* spell (the field text is compared exactly, without trimming).
STR_NA_VALUES == { <<>>, <<"n","a","n">>, <<"N","a","N">>, <<"N","o","n","e">>,
                   <<"N","A">>, <<"n","u","l","l">>, <<"N","U","L","L">> }

\* DataFrame.to_csv on one cell: a missing value is written as an empty field.
to_csv_cell(x) == IF isna(x) THEN <<>> ELSE x

\* pandas.read_csv(dtype=object) on one field.
read_csv_cell(t) == IF t \in STR_NA_VALUES THEN Null ELSE t

(* ------------------------------------------------------------------------ *)
(* Schema                                                                   *)
(* ------------------------------------------------------------------------ *)

\* The columns of the quotations table, in the order of DB_COLUMNS, under
\* English names:
\*   seq_no = 序号, item_name = 设备材料名称, spec_or_model = 规格或型号,
\*   description = 描述, brand = 品牌, unit = 单位, qty_confirmed = 数量确认,
\*   quoted_brand = 报价品牌, model_no = 型号, unit_price = 设备单价,
\*   subtotal = 设备小计, labor_unit_price = 人工包干单价,
\*   labor_subtotal = 人工包干小计, total_unit_price = 综合单价汇总,
\*   currency = 币种, warranty = 原厂品牌维保期限, lead_time = 货期,
\*   remarks = 备注, enquirer = 询价人, project = 项目名称,
\*   supplier = 供应商名称, enquiry_date = 询价日期, entered_by = 录入人,
\*   region = 地区.
DB_COLUMNS == << "seq_no", "item_name", "spec_or_model", "description", "brand",
                 "unit", "qty_confirmed", "quoted_brand", "model_no", "unit_price",
                 "subtotal", "labor_unit_price", "labor_subtotal",
                 "total_unit_price", "currency", "warranty", "lead_time", "remarks",
                 "enquirer", "project", "supplier", "enquiry_date", "entered_by",
                 "region" >>

DBFields == { DB_COLUMNS[i] : i \in DOMAIN DB_COLUMNS }

\* The logged-in user (st.session_state["user"]).
user == [ username |-> <<"u">>, region |-> <<"R">> ]

(* ------------------------------------------------------------------------ *)
(* Header resolver (auto_map_header)                                        *)
(* ------------------------------------------------------------------------ *)

\* The alias table, in the iteration order of the dict: each alias (k) with the
\* canonical column it stands for (v, under the English names of DB_COLUMNS).
\* A CJK character of an alias is one element of the sequence, written in
\* pinyin:
\*   xu = 序, hao = 号, she = 设, bei = 备, cai = 材, liao = 料, ming = 名,
\*   cheng = 称, gui = 规, ge = 格, huo = 或, xing = 型, miao = 描, shu = 述,
\*   pin = 品, pai = 牌, dan = 单, wei = 位, shu3 = 数, liang = 量, que = 确,
\*   ren4 = 认, bao = 报, jia = 价, xiao = 小, ji = 计, bi = 币, zhong = 种, xun = 询,
\*   ren = 人, xiang = 项, mu = 目, gong = 供, ying = 应, shang = 商, ri = 日,
\*   qi = 期, lu = 录, ru = 入, di = 地, qu = 区.
HEADER_SYNONYMS ==
    << [ k |-> <<"xu","hao">>, v |-> "seq_no" ],
       [ k |-> <<"n","o">>, v |-> "seq_no" ],
       [ k |-> <<"i","n","d","e","x">>, v |-> "seq_no" ],
       [ k |-> <<"she","bei","cai","liao","ming","cheng">>, v |-> "item_name" ],
       [ k |-> <<"she","bei","ming","cheng">>, v |-> "item_name" ],
       [ k |-> <<"m","a","t","e","r","i","a","l">>, v |-> "item_name" ],
       [ k |-> <<"n","a","m","e">>, v |-> "item_name" ],
       [ k |-> <<"gui","ge","huo","xing","hao">>, v |-> "spec_or_model" ],
       [ k |-> <<"gui","ge">>, v |-> "spec_or_model" ],
       [ k |-> <<"m","o","d","e","l">>, v |-> "spec_or_model" ],
       [ k |-> <<"s","p","e","c">>, v |-> "spec_or_model" ],
       [ k |-> <<"miao","shu">>, v |-> "description" ],
       [ k |-> <<"d","e","s","c","r","i","p","t","i","o","n">>, v |-> "description" ],
       [ k |-> <<"pin","pai">>, v |-> "brand" ],
       [ k |-> <<"b","r","a","n","d">>, v |-> "brand" ],
       [ k |-> <<"dan","wei">>, v |-> "unit" ],
       [ k |-> <<"u","n","i","t">>, v |-> "unit" ],
       [ k |-> <<"shu3","liang","que","ren4">>, v |-> "qty_confirmed" ],
       [ k |-> <<"shu3","liang">>, v |-> "qty_confirmed" ],
       [ k |-> <<"q","t","y">>, v |-> "qty_confirmed" ],
       [ k |-> <<"q","u","a","n","t","i","t","y">>, v |-> "qty_confirmed" ],
       [ k |-> <<"bao","jia","pin","pai">>, v |-> "quoted_brand" ],
       [ k |-> <<"bao","jia">>, v |-> "quoted_brand" ],
       [ k |-> <<"xing","hao">>, v |-> "model_no" ],
       [ k |-> <<"she","bei","dan","jia">>, v |-> "unit_price" ],
       [ k |-> <<"dan","jia">>, v |-> "unit_price" ],
       [ k |-> <<"p","r","i","c","e">>, v |-> "unit_price" ],
       [ k |-> <<"she","bei","xiao","ji">>, v |-> "subtotal" ],
       [ k |-> <<"s","u","b","t","o","t","a","l">>, v |-> "subtotal" ],
       [ k |-> <<"bi","zhong">>, v |-> "currency" ],
       [ k |-> <<"c","u","r","r","e","n","c","y">>, v |-> "currency" ],
       [ k |-> <<"xun","jia","ren">>, v |-> "enquirer" ],
       [ k |-> <<"xiang","mu","ming","cheng">>, v |-> "project" ],
       [ k |-> <<"gong","ying","shang","ming","cheng">>, v |-> "supplier" ],
       [ k |-> <<"xun","jia","ri","qi">>, v |-> "enquiry_date" ],
       [ k |-> <<"lu","ru","ren">>, v |-> "entered_by" ],
       [ k |-> <<"di","qu">>, v |-> "region" ] >>

\* auto_map_header returning None.
Unresolved == "None"

\* The characters of the class [\s\-\_：:（）()] of the normalising re.sub
\* (fw_colon = ：, fw_lparen = （, fw_rparen = ）).
Separators == { " ", "-", "_", "fw_colon", ":", "fw_lparen", "fw_rparen", "(", ")" }

\* re.sub(r"[\s\-\_：:（）()]+", " ", s): every run of separators becomes one space.
RECURSIVE re_sub_separators(_)
re_sub_separators(s) ==
    IF s = <<>> THEN <<>>
    ELSE IF Head(s) \in Separators
    THEN IF Len(s) > 1 /\ s[2] \in Separators
         THEN re_sub_separators(Tail(s))
         ELSE <<" ">> \o re_sub_separators(Tail(s))
    ELSE <<Head(s)>> \o re_sub_separators(Tail(s))

\* re.sub(...).strip(): the normalised form compared at the second tier.
normalize_header(s) == strip(re_sub_separators(s))

\* Python's `a in b` on strings.
is_substring(a, b) ==
    \E i \in 0..(Len(b) - Len(a)) : SubSeq(b, i + 1, i + Len(a)) = a

\* str(orig_header): a missing cell prints as "nan".
py_str(x) == IF x = Null THEN STR_nan ELSE x

\* The value of the first of the aliases that pass the test of a tier (hits, in
\* the iteration order of the table); Unresolved when none does.
first_match(hits) == IF hits = <<>> THEN Unresolved ELSE hits[1].v

\* Mutant of auto_map_header: the substring tier is tried before the exact tiers.
auto_map_header_substring_first(orig_header) ==
    IF orig_header = PyNone THEN Unresolved
    ELSE LET h      == lower(strip(py_str(orig_header)))
             h_norm == normalize_header(h)
             tier1  == first_match(SelectSeq(HEADER_SYNONYMS, LAMBDA e : h = lower(e.k)))
             tier2  == first_match(SelectSeq(HEADER_SYNONYMS,
                           LAMBDA e : h_norm = normalize_header(lower(e.k))))
             tier3  == first_match(SelectSeq(HEADER_SYNONYMS,
                           LAMBDA e : is_substring(lower(e.k), h)
                                         \/ is_substring(h, lower(e.k))))
         IN  IF tier3 # Unresolved THEN tier3
             ELSE IF tier1 # Unresolved THEN tier1
             ELSE tier2

\* auto_map_header(orig_header): exact match, then normalised match, then
\* substring match, each over the whole table before the next is tried.
auto_map_header(orig_header) ==
    IF orig_header = PyNone THEN Unresolved
    ELSE LET h      == lower(strip(py_str(orig_header)))
             h_norm == normalize_header(h)
             tier1  == first_match(SelectSeq(HEADER_SYNONYMS, LAMBDA e : h = lower(e.k)))
             tier2  == first_match(SelectSeq(HEADER_SYNONYMS,
                           LAMBDA e : h_norm = normalize_header(lower(e.k))))
             tier3  == first_match(SelectSeq(HEADER_SYNONYMS,
                           LAMBDA e : is_substring(lower(e.k), h)
                                         \/ is_substring(h, lower(e.k))))
         IN  IF tier1 # Unresolved THEN tier1
             ELSE IF tier2 # Unresolved THEN tier2
             ELSE tier3

(* ------------------------------------------------------------------------ *)
(* Header region detector (detect_header_from_preview)                      *)
(* ------------------------------------------------------------------------ *)

\* The default arguments of detect_header_from_preview, which the page passes.
max_header_rows == 2
max_search_rows == 8

Min(a, b) == IF a <= b THEN a ELSE b

\* " ".join(parts)
RECURSIVE join_space(_)
join_space(parts) ==
    IF parts = <<>> THEN <<>>
    ELSE IF Len(parts) = 1 THEN parts[1]
    ELSE parts[1] \o <<" ">> \o join_space(Tail(parts))

\* header_text of one column of a candidate: the stripped non-blank cells of the
\* rows start .. start+rows_used-1 (0-indexed), joined by spaces and stripped.
header_text(df_preview, start, rows_used, col) ==
    LET cells == [ k \in 1..rows_used |-> df_preview[start + k][col] ]
        present == SelectSeq(cells, LAMBDA cell : ~isna(cell) /\ strip(cell) # <<>>)
    IN  strip(join_space([ k \in DOMAIN present |-> strip(present[k]) ]))

\* A candidate: its labels (cand), mapped and nonempty, with twice its score
\* (score = mapped + 0.5 * nonempty).
candidate(df_preview, ncols, start, rows_used) ==
    LET cand == [ col \in 1..ncols |-> header_text(df_preview, start, rows_used, col) ]
        nonempty == Cardinality({ col \in 1..ncols : cand[col] # <<>> })
        mapped == Cardinality({ col \in 1..ncols :
                      cand[col] # <<>> /\ auto_map_header(cand[col]) # Unresolved })
    IN  [ score2 |-> 2 * mapped + nonempty, header |-> cand, row |-> start,
          rows_used |-> rows_used, mapped |-> mapped, nonempty |-> nonempty ]

\* The (start, rows_used) pairs the two loops visit, in order, without those
\* skipped by `if start + rows_used > nrows`.
scan_order(nrows) ==
    LET search_rows == Min(max_search_rows, nrows)
        all == [ n \in 1..(search_rows * max_header_rows) |->
                   [ start     |-> (n - 1) \div max_header_rows,
                     rows_used |-> ((n - 1) % max_header_rows) + 1 ] ]
    IN  SelectSeq(all, LAMBDA p : p.start + p.rows_used <= nrows)

\* best = {"score": -1}
NoBest == [ score2 |-> 0 - 2, header |-> <<>>, row |-> 0, rows_used |-> 0,
            mapped |-> 0, nonempty |-> 0 ]

\* if score > best["score"]: best = {...}
better(c, best) == IF c.score2 > best.score2 THEN c ELSE best

\* The two loops: a candidate replaces best only when its score is greater.
RECURSIVE scan(_, _, _, _)
scan(df_preview, ncols, todo, best) ==
    IF todo = <<>> THEN best
    ELSE scan(df_preview, ncols, Tail(todo),
              better(candidate(df_preview, ncols, Head(todo).start, Head(todo).rows_used),
                     best))

\* No header detected: (None, None).
NoHeader == [ status |-> "none", header |-> <<>>, row |-> 0 ]

\* Mutant of accept: the best candidate is returned whatever its counts.
accept_any(best) ==
    IF best.score2 >= 0
    THEN [ status |-> "header", header |-> best.header,
           row |-> best.row + best.rows_used - 1 ]
    ELSE NoHeader

\* The acceptance test applied to best and the value returned.
accept(best) ==
    IF best.score2 >= 0
       /\ (best.mapped >= 2
            \/ (best.nonempty > 0 /\ 10 * best.mapped >= 3 * best.nonempty))
    THEN [ status |-> "header", header |-> best.header,
           row |-> best.row + best.rows_used - 1 ]
    ELSE NoHeader

\* detect_header_from_preview(df_preview, max_header_rows=2, max_search_rows=8)
detect_header_from_preview(df_preview) ==
    IF Len(df_preview) = 0 THEN NoHeader
    ELSE accept(scan(df_preview, Len(df_preview[1]), scan_order(Len(df_preview)), NoBest))

(* ------------------------------------------------------------------------ *)
(* Column mapping confirmation (mapping_form submit handler)                *)
(* ------------------------------------------------------------------------ *)

\* The options of every "源列" selectbox.
mapping_targets ==
    <<"Ignore">> \o SelectSeq(DB_COLUMNS, LAMBDA c : c \notin {"entered_by", "region"})

\* mapped_choices as a dict keyed by source label: the choice of the last
\* column bearing the label.
ChoiceOf(header, choices, label) ==
    choices[CHOOSE i \in DOMAIN header :
               /\ header[i] = label
               /\ \A j \in DOMAIN header : header[j] = label => j <= i]

\* The distinct labels of the header, in order of first occurrence (the keys
\* of mapped_choices in insertion order).
RECURSIVE DictKeys(_, _)
DictKeys(header, seen) ==
    IF header = <<>> THEN <<>>
    ELSE IF Head(header) \in seen THEN DictKeys(Tail(header), seen)
    ELSE <<Head(header)>> \o DictKeys(Tail(header), seen \cup {Head(header)})

\* target_sources: for every target other than "Ignore", the list of source
\* labels assigned to it.
target_sources_of(header, choices) ==
    LET keys == DictKeys(header, {})
        used == { ChoiceOf(header, choices, keys[i]) : i \in DOMAIN keys } \ {"Ignore"}
    IN  [ t \in used |->
            SelectSeq(keys, LAMBDA l : ChoiceOf(header, choices, l) = t) ]

\* normalize_val of the mapped-but-empty detection: whether the cell has a value
has_norm_value(x) ==
    IF isna(x) THEN FALSE
    ELSE lower(strip(x)) \notin {<<>>, STR_nan, STR_none}

\* The column of data_df selected by a label (the first one bearing it).
ColIdx(names, label) == CHOOSE i \in DOMAIN names :
                            /\ names[i] = label
                            /\ \A j \in DOMAIN names : names[j] = label => i <= j

\* mapped_but_empty: the targets none of whose source columns holds any value,
\* in the iteration order of target_sources.
mapped_but_empty_of(grid, choices) ==
    LET ts    == target_sources_of(grid.header, choices)
        keys  == DictKeys(grid.header, {})
        order == DictKeys([i \in DOMAIN keys |-> ChoiceOf(grid.header, choices, keys[i])],
                          {"Ignore"})
        has_value(t) ==
            \E k \in DOMAIN ts[t] : \E r \in DOMAIN grid.rows :
                has_norm_value(grid.rows[r][ColIdx(grid.header, ts[t][k])])
    IN  SelectSeq(order, LAMBDA t : ~has_value(t))

\* rename_dict
rename_dict_of(header, choices) ==
    LET keys == DictKeys(header, {})
    IN  [ l \in { keys[i] : i \in { j \in DOMAIN keys :
                        ChoiceOf(header, choices, keys[j]) # "Ignore" } } |->
            ChoiceOf(header, choices, l) ]

\* data_df.rename(columns=rename_dict): a column that is ignored keeps its
\* source label as its name.
renamed_columns(header, choices) ==
    [ i \in DOMAIN header |->
        IF ChoiceOf(header, choices, header[i]) # "Ignore"
        THEN ChoiceOf(header, choices, header[i]) ELSE header[i] ]

\* df_mapped: the renamed columns, then every DB column that is missing, added
\* as NA; the identity columns set to the calling user.
df_mapped_of(grid, choices) ==
    LET ren     == renamed_columns(grid.header, choices)
        present == { ren[i] : i \in DOMAIN ren }
        added   == SelectSeq(DB_COLUMNS, LAMBDA c : c \notin present)
        names   == ren \o added
        val(r, i) == IF names[i] = "entered_by" THEN user.username
                     ELSE IF names[i] = "region" THEN user.region
                     ELSE IF i <= Len(ren) THEN grid.rows[r][i]
                     ELSE Null
    IN  [ columns |-> names,
          rows    |-> [ r \in DOMAIN grid.rows |-> [ i \in DOMAIN names |-> val(r, i) ] ] ]

\* The positions selected by df[DB_COLUMNS]: for each DB column in order, every
\* column bearing that name.
RECURSIVE SelectCols(_, _)
SelectCols(names, wanted) ==
    IF wanted = <<>> THEN <<>>
    ELSE LET c == Head(wanted)
             RECURSIVE hits(_)
             hits(i) == IF i > Len(names) THEN <<>>
                        ELSE (IF names[i] = c THEN <<i>> ELSE <<>>) \o hits(i + 1)
         IN  hits(1) \o SelectCols(names, Tail(wanted))

\* df_for_db = df_mapped[DB_COLUMNS], written by to_csv: the text kept in
\* st.session_state["mapping_csv"].
mapping_csv_of(grid, choices) ==
    LET dm  == df_mapped_of(grid, choices)
        sel == SelectCols(dm.columns, DB_COLUMNS)
    IN  [ columns |-> [ k \in DOMAIN sel |-> dm.columns[sel[k]] ],
          rows    |-> [ r \in DOMAIN dm.rows |->
                          [ k \in DOMAIN sel |-> to_csv_cell(dm.rows[r][sel[k]]) ] ] ]

\* No mapping_csv in the session.
NoCsv == [ columns |-> <<>>, rows |-> <<>> ]

\* pd.read_csv(mapping_csv, dtype=object) followed by the selection of the DB
\* columns: read_csv renames a repeated column name (name.1, name.2, ...), so
\* each DB column is the first column written under that name.
restore_df(csv) ==
    [ r \in DOMAIN csv.rows |->
        [ c \in DBFields |->
            IF \E i \in DOMAIN csv.columns : csv.columns[i] = c
            THEN read_csv_cell(csv.rows[r][ColIdx(csv.columns, c)])
            ELSE Null ] ]

(* ------------------------------------------------------------------------ *)
(* Global information form and its submit handler                           *)
(* ------------------------------------------------------------------------ *)

\* is_empty_val of column_has_empty_currency
is_empty_val(x) ==
    IF isna(x) THEN TRUE
    ELSE LET s == lower(strip(x)) IN s = <<>> \/ s \in {STR_nan, STR_none}

\* Mutant of column_has_empty_currency: currency is always required.
column_has_empty_currency_always(df) == TRUE

\* column_has_empty_currency(df_for_db): need_global_currency
column_has_empty_currency(df) ==
    \E r \in DOMAIN df : is_empty_val(df[r]["currency"])

\* Truth value of a form input in `if not (g_project and ...)`.
Truthy(x) == x # <<>> /\ x # PyNone

\* The branch of the apply_global handler taken for a submission.
globals_verdict(form, need) ==
    IF ~(Truthy(form.project) /\ Truthy(form.supplier)
            /\ Truthy(form.enquirer) /\ Truthy(form.date))
    THEN "globals_missing"
    ELSE IF need /\ (form.currency = PyNone \/ strip(form.currency) = <<>>)
    THEN "currency_missing"
    ELSE "globals_applied"

\* Mutant of apply_global_handler: the error branches do not clear bulk_applied.
apply_global_handler_flag_kept(form, need, bv) ==
    LET v == globals_verdict(form, need)
    IN  IF v = "globals_applied"
        THEN [ bulk_values  |-> [ project  |-> form.project,
                                  supplier |-> form.supplier,
                                  enquirer |-> form.enquirer,
                                  date     |-> form.date,
                                  currency |-> IF form.currency # PyNone
                                               THEN form.currency ELSE bv.currency ],
               bulk_applied |-> TRUE,
               msgs         |-> {v} ]
        ELSE [ bulk_values |-> bv, bulk_applied |-> TRUE, msgs |-> {v} ]

\* The apply_global handler: the new bulk_values and bulk_applied, and the
\* message it reports.
apply_global_handler(form, need, bv) ==
    LET v == globals_verdict(form, need)
    IN  IF v = "globals_applied"
        THEN [ bulk_values  |-> [ project  |-> form.project,
                                  supplier |-> form.supplier,
                                  enquirer |-> form.enquirer,
                                  date     |-> form.date,
                                  currency |-> IF form.currency # PyNone
                                               THEN form.currency ELSE bv.currency ],
               bulk_applied |-> TRUE,
               msgs         |-> {v} ]
        ELSE [ bulk_values |-> bv, bulk_applied |-> FALSE, msgs |-> {v} ]

(* ------------------------------------------------------------------------ *)
(* Fallback fill                                                            *)
(* ------------------------------------------------------------------------ *)

is_empty_cell(x) ==
    IF isna(x) THEN TRUE
    ELSE LET sx == strip(x) IN sx = <<>> \/ lower(sx) \in {STR_nan, STR_none}

\* Mutant of fill_empty: the value is written to every row.
fill_empty_overwrite(df, col_name, value) ==
    [ r \in DOMAIN df |-> [ df[r] EXCEPT ![col_name] = value ] ]

\* Mutant of fill_empty: only the first empty cell of the column is filled.
fill_empty_first_only(df, col_name, value) ==
    [ r \in DOMAIN df |->
        IF /\ is_empty_cell(df[r][col_name])
           /\ \A q \in 1..(r - 1) : ~is_empty_cell(df[q][col_name])
        THEN [ df[r] EXCEPT ![col_name] = value ] ELSE df[r] ]

\* fill_empty(col_name, value) on df_final
fill_empty(df, col_name, value) ==
    [ r \in DOMAIN df |->
        IF is_empty_cell(df[r][col_name])
        THEN [ df[r] EXCEPT ![col_name] = value ] ELSE df[r] ]

\* The five fill_empty calls, in the order of the code.
apply_fill(df, g, need) ==
    LET d1 == fill_empty(df, "project", g.project)
        d2 == fill_empty(d1, "supplier", g.supplier)
        d3 == fill_empty(d2, "enquirer", g.enquirer)
        d4 == fill_empty(d3, "enquiry_date", g.date)
    IN  IF need /\ g.currency # <<>> THEN fill_empty(d4, "currency", g.currency) ELSE d4

(* ------------------------------------------------------------------------ *)
(* Required-field validation                                                *)
(* ------------------------------------------------------------------------ *)

normalize_cell(x) ==
    IF isna(x) THEN PyNone
    ELSE LET s == strip(x)
         IN  IF lower(s) \in {<<>>, STR_nan, STR_none} THEN PyNone ELSE s

required_nonprice ==
    << "project", "supplier", "enquirer", "item_name", "currency", "enquiry_date" >>

\* missing_nonprice for one row
missing_nonprice(row) ==
    \E i \in DOMAIN required_nonprice : isna(normalize_cell(row[required_nonprice[i]]))

price_has_value(row) ==
    LET nv1 == normalize_cell(row["unit_price"])
        nv2 == normalize_cell(row["labor_unit_price"])
    IN  (nv1 # PyNone) \/ (nv2 # PyNone)

\* Mutant of rows_invalid_mask: brand is still a required field.
rows_invalid_mask_brand_required(row) ==
    missing_nonprice(row) \/ ~price_has_value(row) \/ isna(normalize_cell(row["brand"]))

\* rows_invalid_mask for one row
rows_invalid_mask(row) == missing_nonprice(row) \/ ~price_has_value(row)

df_valid_of(df_final)   == SelectSeq(df_final, LAMBDA row : ~rows_invalid_mask(row))
df_invalid_of(df_final) == SelectSeq(df_final, LAMBDA row : rows_invalid_mask(row))

(* ------------------------------------------------------------------------ *)
(* Import of the valid rows                                                 *)
(* ------------------------------------------------------------------------ *)

\* Mutant of dropna_all: dropna() with its default how="any".
dropna_any(df) == SelectSeq(df, LAMBDA row : \A c \in DBFields : ~isna(row[c]))

\* DataFrame.dropna(how="all")
dropna_all(df) == SelectSeq(df, LAMBDA row : \E c \in DBFields : ~isna(row[c]))

\* Mutant of drop_duplicates: repeated rows are kept.
drop_duplicates_keep_all(df) == df

\* DataFrame.drop_duplicates(): the first occurrence of every row is kept.
RECURSIVE drop_duplicates(_)
drop_duplicates(df) ==
    IF df = <<>> THEN <<>>
    ELSE LET init == drop_duplicates(SubSeq(df, 1, Len(df) - 1))
             last == df[Len(df)]
         IN  IF \E i \in DOMAIN init : init[i] = last THEN init ELSE Append(init, last)

\* final_price_ok is applied to the rows of df_to_store, not to final_check:
\* it compares the raw cells with the object None.
final_price_ok(row) ==
    (row["unit_price"] # PyNone) \/ (row["labor_unit_price"] # PyNone)

\* final_invalid_mask for one row
final_invalid_mask(row) ==
    isna(normalize_cell(row["item_name"])) \/ ~final_price_ok(row)

\* Mutant of to_sql: no transaction, the first row stays when the append raises.
to_sql_partial(st, rows, ok) == IF ok THEN st \o rows ELSE st \o << Head(rows) >>

\* to_sql("quotations", if_exists="append") inside `with engine.begin()`: one
\* transaction, rolled back when the statement raises.
to_sql(st, rows, ok) == IF ok THEN st \o rows ELSE st

\* df_final split by rows_invalid_mask.
validate_rows(df_final) ==
    [ df_final   |-> df_final,
      df_valid   |-> df_valid_of(df_final),
      df_invalid |-> df_invalid_of(df_final) ]

\* The import of df_to_store and the report of the pass.  `v` is the result of
\* validate_rows, `ok` is whether the database accepts the append.
import_rows(v, df_to_store, st, ok) ==
    LET to_import == SelectSeq(df_to_store, LAMBDA row : ~final_invalid_mask(row))
        still_bad == SelectSeq(df_to_store, LAMBDA row : final_invalid_mask(row))
        res ==
            IF v.df_valid = <<>>
            THEN [ store |-> st, msgs |-> {"no_valid"}, bad |-> v.df_invalid, n |-> 0 ]
            ELSE IF still_bad # <<>>
            THEN IF to_import # <<>>
                 THEN IF ok
                      THEN [ store |-> to_sql(st, to_import, ok), msgs |-> {"import_ok"},
                             bad |-> v.df_invalid \o still_bad, n |-> Len(to_import) ]
                      ELSE [ store |-> to_sql(st, to_import, ok), msgs |-> {"import_error"},
                             bad |-> v.df_invalid, n |-> 0 ]
                 ELSE [ store |-> st, msgs |-> {"nothing_importable"},
                        bad |-> v.df_invalid \o still_bad, n |-> 0 ]
            ELSE IF ok
                 THEN [ store |-> to_sql(st, df_to_store, ok), msgs |-> {"import_ok"},
                        bad |-> v.df_invalid, n |-> Len(df_to_store) ]
                 ELSE [ store |-> to_sql(st, df_to_store, ok), msgs |-> {"import_error"},
                        bad |-> v.df_invalid, n |-> 0 ]
    IN  [ store          |-> res.store,
          msgs           |-> res.msgs \cup (IF res.bad # <<>> THEN {"invalid_warning"} ELSE {}),
          df_final       |-> v.df_final,
          df_valid       |-> v.df_valid,
          df_invalid     |-> res.bad,
          imported_count |-> res.n ]

\* The rows of df_valid that are stored: df_to_store.
import_valid(v, st, ok) ==
    import_rows(v, drop_duplicates(dropna_all(v.df_valid)), st, ok)

\* Mutant of bulk_applied_after_pass: the pass leaves the flag as it found it.
bulk_applied_after_pass_kept(validating, flag) == flag

\* st.session_state["bulk_applied"] at the end of the page run: the validation
\* and import pass, when it runs, ends by clearing the flag.
bulk_applied_after_pass(validating, flag) == IF validating THEN FALSE ELSE flag

\* The validation and import pass run while bulk_applied is set.
import_pass(csv, g, need, st, ok) ==
    import_valid(validate_rows(apply_fill(restore_df(csv), g, need)), st, ok)

(* ------------------------------------------------------------------------ *)
(* State                                                                    *)
(* ------------------------------------------------------------------------ *)

VARIABLES
    mapping_done,               \* st.session_state["mapping_done"] (absent = FALSE)
    bulk_applied,               \* st.session_state["bulk_applied"] (absent = FALSE)
    mapping_csv,                \* st.session_state["mapping_csv"]
    mapping_rename_dict,        \* st.session_state["mapping_rename_dict"]
    mapping_target_sources,     \* st.session_state["mapping_target_sources"]
    mapping_mapped_but_empty,   \* st.session_state["mapping_mapped_but_empty"]
    show_global_form,           \* st.session_state["show_global_form"]
    bulk_values,                \* st.session_state["bulk_values"]
    store,                      \* the rows of the quotations table, in rowid order
    event,                      \* the widget that triggered the last page run
    mapped_choices,             \* the map_i selectboxes at the last mapping submit
    g_form,                     \* the inputs of global_form_v2 submitted in the last run
    msgs,                       \* the messages reported by the last page run
    df_final,                   \* df_final of the last page run (after the fallback fill)
    df_valid,                   \* df_valid of the last page run
    df_invalid,                 \* the rows offered as invalid_rows.xlsx by the last run
    imported_count,             \* imported_count of the last page run
    orig_header,                \* the argument of a call of auto_map_header
    auto_val,                   \* what the call returned
    df_preview,                 \* the argument of a call of detect_header_from_preview
    detected,                   \* what the call returned
    quotations_rowids,          \* the rowids of the quotations table, as the search page sees it
    deleted_quotations,         \* whether deleted_quotations exists, and its original_rowid column
    delete_choices,             \* the rowids of `choices`, offered by admin_delete_form_final_v2
    selected_rowids,            \* selected_rowids of the last delete submission
    sql_log,                    \* the statements the last delete submission executed
    admin_msgs,                 \* the messages the last delete submission reported
    deleted_count               \* deleted_count of the last delete submission (0 if unset)

\* The session, the table and the output of the upload page.
page_vars == << mapping_done, bulk_applied, mapping_csv, mapping_rename_dict,
                mapping_target_sources, mapping_mapped_but_empty, show_global_form,
                bulk_values, store, event, mapped_choices, g_form, msgs, df_final,
                df_valid, df_invalid, imported_count >>

\* A call of the header resolver.
resolver_vars == << orig_header, auto_val >>

\* A call of the header region detector.
detector_vars == << df_preview, detected >>

\* The search page: the table by rowid, the archive, the delete form and the
\* output of its handler.
admin_vars == << quotations_rowids, deleted_quotations, delete_choices, selected_rowids,
                 sql_log, admin_msgs, deleted_count >>

vars == << page_vars, resolver_vars, detector_vars, admin_vars >>

\* The most rows the quotations table holds in the model.
MaxStore == 2

\* bulk_values as first stored by the page (all fields "").
EmptyBulkValues ==
    [ project |-> <<>>, supplier |-> <<>>, enquirer |-> <<>>, date |-> <<>>,
      currency |-> <<>> ]

NoForm ==
    [ project |-> <<>>, supplier |-> <<>>, enquirer |-> <<>>, date |-> PyNone,
      currency |-> PyNone ]

NoGrid == [ header |-> <<>>, rows |-> <<>> ]

\* No call of auto_map_header is being followed.
NotCalled == "not_called"

ResolverIdle == orig_header = PyNone /\ auto_val = NotCalled

\* No call of detect_header_from_preview is being followed.
NotDetected == [ status |-> "not_called", header |-> <<>>, row |-> 0 ]

DetectorIdle == df_preview = <<>> /\ detected = NotDetected

\* The table deleted_quotations does not exist (the module never creates it).
Absent == [ exists |-> FALSE, rows |-> {} ]

\* The search page has not been opened.
AdminIdle ==
    /\ quotations_rowids = {}
    /\ deleted_quotations = Absent
    /\ delete_choices = {}
    /\ selected_rowids = {}
    /\ sql_log = <<>>
    /\ admin_msgs = {}
    /\ deleted_count = 0

\* The upload page before any interaction.
PageInit ==
    /\ mapping_done = FALSE
    /\ bulk_applied = FALSE
    /\ mapping_csv = NoCsv
    /\ mapping_rename_dict = <<>>
    /\ mapping_target_sources = <<>>
    /\ mapping_mapped_but_empty = <<>>
    /\ show_global_form = FALSE
    /\ bulk_values = EmptyBulkValues
    /\ store = <<>>
    /\ event = "none"
    /\ mapped_choices = <<>>
    /\ g_form = NoForm
    /\ msgs = {}
    /\ df_final = <<>>
    /\ df_valid = <<>>
    /\ df_invalid = <<>>
    /\ imported_count = 0

SessionInit == PageInit /\ ResolverIdle /\ DetectorIdle /\ AdminIdle

(* ------------------------------------------------------------------------ *)
(* One run of the page script                                               *)
(* ------------------------------------------------------------------------ *)

\* The main page from the upload section to the end of the import section,
\* run with the interaction `ev`: "mapping_submit" (with the uploaded grid and
\* the chosen targets), "open_form", "apply_global" (with the form inputs) or
\* "rerun" (any other interaction).  `ok` is whether the database accepts an
\* append made by the run.
RunPage(ev, grid, choices, form, ok) ==
    \E csv \in { IF ev = "mapping_submit"
                 THEN mapping_csv_of(grid, choices) ELSE mapping_csv } :
    \E show \in { IF csv # NoCsv
                  THEN show_global_form \/ ev = "open_form" ELSE show_global_form } :
    \E need \in { column_has_empty_currency(restore_df(csv)) } :
    \E h \in { IF csv # NoCsv /\ show /\ ev = "apply_global"
               THEN apply_global_handler(form, need, bulk_values)
               ELSE [ bulk_values |-> bulk_values, bulk_applied |-> bulk_applied,
                      msgs |-> {} ] } :
    \E imp \in { IF csv # NoCsv /\ show /\ h.bulk_applied
                 THEN import_pass(csv, h.bulk_values, need, store, ok)
                 ELSE [ store |-> store, msgs |-> {}, df_final |-> <<>>,
                        df_valid |-> <<>>, df_invalid |-> <<>>,
                        imported_count |-> 0 ] } :
        /\ Len(imp.store) <= MaxStore
        /\ event' = ev
        /\ mapping_done' = (ev = "mapping_submit" \/ mapping_done)
        /\ mapping_csv' = csv
        /\ mapping_rename_dict' =
              IF ev = "mapping_submit" THEN rename_dict_of(grid.header, choices)
              ELSE mapping_rename_dict
        /\ mapping_target_sources' =
              IF ev = "mapping_submit" THEN target_sources_of(grid.header, choices)
              ELSE mapping_target_sources
        /\ mapping_mapped_but_empty' =
              IF ev = "mapping_submit" THEN mapped_but_empty_of(grid, choices)
              ELSE mapping_mapped_but_empty
        /\ mapped_choices' = IF ev = "mapping_submit" THEN choices ELSE mapped_choices
        /\ show_global_form' = show
        /\ g_form' = IF ev = "apply_global" THEN form ELSE NoForm
        /\ bulk_values' = h.bulk_values
        /\ bulk_applied' = bulk_applied_after_pass(csv # NoCsv /\ show /\ h.bulk_applied,
                                                   h.bulk_applied)
        /\ store' = imp.store
        /\ df_final' = imp.df_final
        /\ df_valid' = imp.df_valid
        /\ df_invalid' = imp.df_invalid
        /\ imported_count' = imp.imported_count
        /\ msgs' = (IF ev = "mapping_submit" THEN {"mapping_saved"} ELSE {})
                      \cup h.msgs \cup imp.msgs
                      \cup (IF csv # NoCsv THEN {} ELSE {"no_mapping_info"})
        /\ UNCHANGED << resolver_vars, detector_vars, admin_vars >>

(* ------------------------------------------------------------------------ *)
(* Inputs                                                                   *)
(* ------------------------------------------------------------------------ *)

Va  == <<"a">>
V1  == <<"1">>
USD == <<"U","S","D">>

\* The uploaded sheets of the session model (header labels and data rows).
Uploads ==
    { [ header |-> <<"Item", "Price", "Cur">>,
        rows   |-> << <<Va, V1, USD>> >> ],
      [ header |-> <<"Item", "Price", "Cur">>,
        rows   |-> << <<Va, V1, Null>>, <<Va, <<" ">>, USD>> >> ],
      \* a sheet made from the template: its first label is the name of a DB
      \* column (品牌)
      [ header |-> <<"brand", "Price", "Cur">>,
        rows   |-> << <<Va, V1, USD>> >> ] }

\* The targets the model's user picks from for a source column.
SelectableTargets(label) ==
    CASE label = "Item"  -> { "item_name", "Ignore" }
      [] label = "Price" -> { "unit_price", "item_name" }
      [] label = "Cur"   -> { "currency", "Ignore" }
      [] label = "brand" -> { "brand", "Ignore" }

ChoicesFor(header) ==
    { ch \in [ DOMAIN header -> { mapping_targets[i] : i \in DOMAIN mapping_targets } ] :
        \A i \in DOMAIN header : ch[i] \in SelectableTargets(header[i]) }

GoodForm(need) ==
    [ project |-> <<"P">>, supplier |-> <<"S">>, enquirer |-> <<"E">>,
      date |-> <<"D">>, currency |-> IF need THEN USD ELSE PyNone ]

\* The inputs of the global form: a complete form, and the forms that differ
\* from it in one field.  The currency selectbox exists only when
\* need_global_currency.
FormInputs(need) ==
    { f \in [ project  : { <<>>, <<" ">>, <<"P">> },
              supplier : { <<>>, <<"S">> },
              enquirer : { <<>>, <<"E">> },
              date     : { PyNone, <<"D">> },
              currency : IF need THEN { <<>>, USD } ELSE { PyNone } ] :
        Cardinality({ k \in DOMAIN f : f[k] # GoodForm(need)[k] }) <= 1 }

(* ------------------------------------------------------------------------ *)
(* Actions                                                                  *)
(* ------------------------------------------------------------------------ *)

\* "应用映射并预览" pressed on the mapping form of an uploaded sheet.
MappingSubmit ==
    \E grid \in Uploads :
        \E choices \in ChoicesFor(grid.header) :
            RunPage("mapping_submit", grid, choices, NoForm, TRUE)

\* "填写/查看全局信息并应用导入" pressed (the button exists once mapping_csv does).
OpenGlobalForm ==
    /\ mapping_csv # NoCsv
    /\ RunPage("open_form", NoGrid, <<>>, NoForm, TRUE)

\* "应用全局并继续校验" pressed on the global form shown by the previous run.
ApplyGlobal ==
    /\ mapping_csv # NoCsv
    /\ show_global_form
    /\ \E form \in FormInputs(column_has_empty_currency(restore_df(mapping_csv))) :
          \E ok \in BOOLEAN :
              RunPage("apply_global", NoGrid, <<>>, form, ok)

\* Any other interaction reruns the page.
Rerun == RunPage("rerun", NoGrid, <<>>, NoForm, TRUE)

Next == MappingSubmit \/ OpenGlobalForm \/ ApplyGlobal \/ Rerun

Spec == SessionInit /\ [][Next]_vars

(* ------------------------------------------------------------------------ *)
(* Row-level specification: the fill, validation and import of one staged   *)
(* row set, over a wider range of cell values.  It starts in the states the *)
(* session is in after a sheet with the template's header has been mapped   *)
(* column by column and the global form has been opened.                    *)
(* ------------------------------------------------------------------------ *)

\* The header of the downloadable template: every DB column but the two
\* identity columns.
TemplateHeader == Tail(mapping_targets)

\* The suggested mapping of a template sheet: every column to its own field.
TemplateChoices == TemplateHeader

\* A value present in a source cell of the given column.
FullValue(c) ==
    CASE c = "currency" -> <<"S","G","D">>
      [] c \in {"unit_price", "labor_unit_price"} -> V1
      [] c = "item_name" -> Va
      [] OTHER -> <<"x">>

\* The ways a source cell is without a value.
EmptyKinds == { Null, <<" ","N","o","n","e">>, <<"N","A","N">> }

\* A source row: the columns in `filled` hold a value, the others are `kind`.
TemplateRow(filled, kind) ==
    [ i \in DOMAIN TemplateHeader |->
        IF TemplateHeader[i] \in filled THEN FullValue(TemplateHeader[i]) ELSE kind ]

TemplateFields == { TemplateHeader[i] : i \in DOMAIN TemplateHeader }

\* The rows that sheets of two rows are built from.
PairRows ==
    { TemplateRow(TemplateFields, Null),
      TemplateRow({"item_name", "unit_price"}, STR_nan),
      TemplateRow({"item_name", "labor_unit_price", "brand"}, <<" ">>),
      TemplateRow({"item_name", "currency"}, Null) }

\* The columns a global value stands in for, other than currency.
TextGlobals == { "project", "supplier", "enquirer", "enquiry_date" }

\* The sets of columns that hold a value in a sheet of one row: any of item
\* name, brand, the two prices and currency, and of the four other global
\* columns all, none, or all but one.
FilledSets ==
    { f \cup t :
        f \in SUBSET { "item_name", "brand", "unit_price", "labor_unit_price", "currency" },
        t \in { TextGlobals, {} } \cup { TextGlobals \ {c} : c \in TextGlobals } }

RowUploads ==
    { [ header |-> TemplateHeader, rows |-> << TemplateRow(f, k) >> ] :
        f \in FilledSets, k \in EmptyKinds }
    \cup
    { [ header |-> TemplateHeader, rows |-> << r1, r2 >> ] :
        r1 \in PairRows, r2 \in PairRows }

RowsInit ==
    \E grid \in RowUploads :
        /\ mapping_done = TRUE
        /\ bulk_applied = FALSE
        /\ mapping_csv = mapping_csv_of(grid, TemplateChoices)
        /\ mapping_rename_dict = rename_dict_of(grid.header, TemplateChoices)
        /\ mapping_target_sources = target_sources_of(grid.header, TemplateChoices)
        /\ mapping_mapped_but_empty = mapped_but_empty_of(grid, TemplateChoices)
        /\ show_global_form = TRUE
        /\ bulk_values = EmptyBulkValues
        /\ store = <<>>
        /\ event = "open_form"
        /\ mapped_choices = TemplateChoices
        /\ g_form = NoForm
        /\ msgs = {}
        /\ df_final = <<>>
        /\ df_valid = <<>>
        /\ df_invalid = <<>>
        /\ imported_count = 0
        /\ ResolverIdle
        /\ DetectorIdle
        /\ AdminIdle

\* The forms submitted in the row-level specification: those of FormInputs that
\* pass the first check of the handler (a complete form, one whose project is a
\* single space, one without a currency).
RowForms(need) ==
    { f \in FormInputs(need) :
        Truthy(f.project) /\ Truthy(f.supplier) /\ Truthy(f.enquirer) /\ Truthy(f.date) }

\* "应用全局并继续校验" pressed with one of RowForms.
ApplyGlobalRows ==
    /\ mapping_csv # NoCsv
    /\ show_global_form
    /\ \E form \in RowForms(column_has_empty_currency(restore_df(mapping_csv))) :
          \E ok \in BOOLEAN :
              RunPage("apply_global", NoGrid, <<>>, form, ok)

NextRows == ApplyGlobalRows \/ Rerun

SpecRows == RowsInit /\ [][NextRows]_vars

(* ------------------------------------------------------------------------ *)
(* Resolver specification: one call of auto_map_header on a header label.   *)
(* ------------------------------------------------------------------------ *)

\* str.upper() on one character
UpperChar(c) ==
    IF \E i \in DOMAIN LowerChars : LowerChars[i] = c
    THEN UpperChars[CHOOSE i \in DOMAIN LowerChars : LowerChars[i] = c]
    ELSE c

\* The alias written as a sheet would: with a capital first letter.
Capitalized(s) == [ i \in DOMAIN s |-> IF i = 1 THEN UpperChar(s[i]) ELSE s[i] ]

Aliases == { HEADER_SYNONYMS[i].k : i \in DOMAIN HEADER_SYNONYMS }

\* The labels the resolver is called with: every alias as it is, capitalised,
\* in parentheses, and followed by a space or by a hyphen; pieces of aliases;
\* two-word labels; blank labels; a missing label and None.
HeaderInputs ==
    Aliases
    \cup { Capitalized(k) : k \in Aliases }
    \cup { <<"(">> \o k \o <<")">> : k \in Aliases }
    \cup { k \o <<" ">> : k \in Aliases }
    \cup { k \o <<"-">> : k \in Aliases }
    \cup { <<"r","i","c">>, <<"(","r","i","c",")">>, <<"n","a">>, <<"x">>,
           <<"I","t","e","m">>, <<"U","n","i","t"," ","P","r","i","c","e">>,
           <<"u","n","i","t","_","p","r","i","c","e">>,
           <<"Q","t","y",":">>, <<"gui">>, <<"hao">>,
           <<>>, <<" ">>, <<" "," ">>, <<"-">>, <<"_"," ">>, Null, PyNone }

ResolveInit ==
    /\ PageInit
    /\ orig_header \in HeaderInputs
    /\ auto_val = NotCalled
    /\ DetectorIdle
    /\ AdminIdle

\* The call auto_map_header(orig_header) returns.
AutoMapHeader ==
    /\ auto_val = NotCalled
    /\ auto_val' = auto_map_header(orig_header)
    /\ UNCHANGED << orig_header, page_vars, detector_vars, admin_vars >>

NextResolve == AutoMapHeader

SpecResolve == ResolveInit /\ [][NextResolve]_vars

(* ------------------------------------------------------------------------ *)
(* Detector specification: one call of detect_header_from_preview on the    *)
(* first rows of an uploaded sheet.                                         *)
(* ------------------------------------------------------------------------ *)

\* The most title or blank rows above the header row, and the most data rows
\* below it, in the sheets of the detector specification.
MaxTitleRows == 2
MaxDataRows == 2

STR_Name  == <<"N","a","m","e">>
STR_Price == <<"P","r","i","c","e">>
STR_Qty   == <<"Q","t","y">>
STR_Cur   == <<"C","u","r">>
STR_Note  == <<"Z","z">>

\* A blank row and a title row (sheets of four columns).
BlankRow == << Null, Null, Null, Null >>
TitleRow == << <<"P","r","i","c","e"," ","l","i","s","t">>, Null, Null, Null >>
TitleRows == { BlankRow, TitleRow }

\* Header rows: four resolvable labels; two resolvable labels, a blank one and
\* an unresolvable one; one resolvable label among four; one resolvable label
\* alone; no resolvable label.
HeaderRows ==
    { << STR_Name, STR_Price, STR_Qty, STR_Cur >>,
      << STR_Name, STR_Price, Null, STR_Note >>,
      << STR_Name, STR_Note, STR_Note, STR_Note >>,
      << STR_Name, Null, Null, <<" ">> >>,
      << STR_Note, STR_Note, Null, STR_Note >> }

\* Data rows: none of their cells resolves.
DataRows ==
    { << <<"4","4">>, <<"7">>, <<"3">>, <<"4","4">> >>,
      << <<"4","4">>, Null, <<"3">>, Null >> }

\* The sequences over S of at most n elements.
RECURSIVE SeqsUpTo(_, _)
SeqsUpTo(S, n) ==
    IF n = 0 THEN { <<>> }
    ELSE LET shorter == SeqsUpTo(S, n - 1)
         IN  shorter \cup { Append(q, x) : q \in shorter, x \in S }

\* The previews: title and blank rows, then a header row or none, then data rows.
Previews ==
    { pre \o mid \o post :
        pre  \in SeqsUpTo(TitleRows, MaxTitleRows),
        mid  \in { <<>> } \cup { << h >> : h \in HeaderRows },
        post \in SeqsUpTo(DataRows, MaxDataRows) }

DetectInit ==
    /\ PageInit
    /\ ResolverIdle
    /\ df_preview \in Previews
    /\ detected = NotDetected
    /\ AdminIdle

\* The call detect_header_from_preview(df_preview) returns.
DetectHeader ==
    /\ detected = NotDetected
    /\ detected' = detect_header_from_preview(df_preview)
    /\ UNCHANGED << df_preview, page_vars, resolver_vars, admin_vars >>

NextDetect == DetectHeader

SpecDetect == DetectInit /\ [][NextDetect]_vars

(* ------------------------------------------------------------------------ *)
(* Administrator deletion on the search page                                *)
(* ------------------------------------------------------------------------ *)

\* The most rows the quotations table holds in the deletion model.
MaxRowid == 3

\* INSERT INTO deleted_quotations SELECT ... WHERE rowid IN (...), in its own
\* transaction; any exception is reported and ignored.
archive_step(archive, selected, table) ==
    IF archive = Absent
    THEN [ archive |-> Absent, msgs |-> {"archive_error_ignored"} ]
    ELSE [ archive |-> [ archive EXCEPT !.rows = @ \cup (selected \cap table) ],
           msgs    |-> {"archive_tried"} ]

\* DELETE FROM quotations WHERE rowid IN (...) and the report on its rowcount.
\* deleted_count is modelled as 0 when the statement raises.
delete_step(table, selected, del_ok) ==
    IF del_ok
    THEN [ table |-> table \ selected,
           count |-> Cardinality(table \cap selected),
           msgs  |-> IF table \cap selected = {} THEN {"rowcount_zero"} ELSE {"deleted"} ]
    ELSE [ table |-> table, count |-> 0, msgs |-> {"delete_error"} ]

\* The re-select after the DELETE and its report.
verify_step(table, selected, after_ok) ==
    IF ~after_ok THEN {"verify_failed"}
    ELSE IF selected \cap table = {} THEN {"verify_gone"}
    ELSE {"verify_remaining"}

\* Mutant of delete_matched: a failed archival cancels the deletion.
delete_matched_archive_required(table, archive, selected, del_ok, after_ok) ==
    LET a == archive_step(archive, selected, table)
        d == delete_step(table, selected, del_ok /\ archive # Absent)
    IN  [ table   |-> d.table,
          archive |-> a.archive,
          sql     |-> IF archive = Absent THEN <<"SELECT", "INSERT", "SELECT">>
                      ELSE <<"SELECT", "INSERT", "DELETE", "SELECT">>,
          msgs    |-> a.msgs \cup (IF archive = Absent THEN {} ELSE d.msgs)
                        \cup verify_step(d.table, selected, after_ok),
          count   |-> d.count ]

\* The branch taken when the re-select matched some row: archive, delete,
\* verify.  Each statement runs in a transaction of its own.
delete_matched(table, archive, selected, del_ok, after_ok) ==
    LET a == archive_step(archive, selected, table)
        d == delete_step(table, selected, del_ok)
    IN  [ table   |-> d.table,
          archive |-> a.archive,
          sql     |-> <<"SELECT", "INSERT", "DELETE", "SELECT">>,
          msgs    |-> a.msgs \cup d.msgs \cup verify_step(d.table, selected, after_ok),
          count   |-> d.count ]

\* Nothing was executed: the value of the handler's early exits.
not_deleted(table, archive, sql, reports) ==
    [ table |-> table, archive |-> archive, sql |-> sql, msgs |-> reports, count |-> 0 ]

\* `if submit_del:` of the delete form.  pre_ok, del_ok and after_ok are
\* whether the re-select, the DELETE and the verification query run without a
\* database error.
admin_delete_handler(selected, confirm, table, archive, pre_ok, del_ok, after_ok) ==
    IF selected = {} THEN not_deleted(table, archive, <<>>, {"select_first"})
    ELSE IF ~confirm THEN not_deleted(table, archive, <<>>, {"confirm_first"})
    ELSE IF ~pre_ok
    THEN not_deleted(table, archive, <<"SELECT">>, {"match_query_failed", "no_match"})
    ELSE IF selected \cap table = {}
    THEN not_deleted(table, archive, <<"SELECT">>, {"no_match"})
    ELSE delete_matched(table, archive, selected, del_ok, after_ok)

\* An administrator's session on the search page, over a table of MaxRowid
\* rows; deleted_quotations exists or not.
AdminInit ==
    /\ PageInit
    /\ ResolverIdle
    /\ DetectorIdle
    /\ quotations_rowids = 1..MaxRowid
    /\ deleted_quotations \in { Absent, [ exists |-> TRUE, rows |-> {} ] }
    /\ delete_choices = {}
    /\ selected_rowids = {}
    /\ sql_log = <<>>
    /\ admin_msgs = {}
    /\ deleted_count = 0

\* "搜索设备" pressed: the result is not empty and the delete form offers its
\* rows.
SearchDevices ==
    /\ \E found \in (SUBSET quotations_rowids) \ {{}} : delete_choices' = found
    /\ selected_rowids' = {}
    /\ sql_log' = <<>>
    /\ admin_msgs' = {}
    /\ deleted_count' = 0
    /\ UNCHANGED << quotations_rowids, deleted_quotations, page_vars, resolver_vars,
                    detector_vars >>

\* Another session removes a row of the table.
ConcurrentDelete ==
    /\ \E r \in quotations_rowids : quotations_rowids' = quotations_rowids \ {r}
    /\ UNCHANGED << deleted_quotations, delete_choices, selected_rowids, sql_log, admin_msgs,
                    deleted_count, page_vars, resolver_vars, detector_vars >>

\* "删除所选记录（管理员）" pressed on the form drawn by the last search.
SubmitDelete ==
    /\ delete_choices # {}
    /\ \E selected \in SUBSET delete_choices : \E confirm, pre_ok, del_ok, after_ok \in BOOLEAN :
          \E res \in { admin_delete_handler(selected, confirm, quotations_rowids,
                                            deleted_quotations, pre_ok, del_ok, after_ok) } :
              /\ selected_rowids' = selected
              /\ quotations_rowids' = res.table
              /\ deleted_quotations' = res.archive
              /\ sql_log' = res.sql
              /\ admin_msgs' = res.msgs
              /\ deleted_count' = res.count
    /\ delete_choices' = {}
    /\ UNCHANGED << page_vars, resolver_vars, detector_vars >>

NextAdmin == SearchDevices \/ ConcurrentDelete \/ SubmitDelete

SpecAdmin == AdminInit /\ [][NextAdmin]_vars

(* ------------------------------------------------------------------------ *)
(* Properties                                                               *)
(* ------------------------------------------------------------------------ *)

\* Empty, as the specification defines it: null, or blank, "nan" or "none"
\* after trimming and case-folding.
EmptyC(x) == x = Null \/ lower(strip(x)) \in { <<>>, STR_nan, STR_none }

\* A blank form input: not given, or nothing but spaces.
Blank(x) == x = PyNone \/ strip(x) = <<>>

InSeq(x, sq) == \E i \in DOMAIN sq : sq[i] = x

\* The staged rows held by the session.
Staged == restore_df(mapping_csv)

\* Whether currency is flagged as a required global for the staged rows.
CurrencyRequired == \E r \in DOMAIN Staged : EmptyC(Staged[r]["currency"])

\* The rows the last page run appended to the table.
Appended == SubSeq(store, Len(store) - imported_count + 1, Len(store))

\* The last page run applied the globals and ran the validation pass.
Validated == "globals_applied" \in msgs

GlobalFields == { "project", "supplier", "enquirer", "enquiry_date", "currency" }

\* The required-field rule of the specification for one row.
RowComplete(row) ==
    /\ \A c \in { "project", "supplier", "enquirer", "item_name", "currency",
                  "enquiry_date" } : ~EmptyC(row[c])
    /\ (~EmptyC(row["unit_price"]) \/ ~EmptyC(row["labor_unit_price"]))

\* Some target was chosen for more than one source column.
ConflictIn(choices) ==
    \E i, j \in DOMAIN choices : i # j /\ choices[i] = choices[j] /\ choices[i] # "Ignore"

\* C1 (as claimed): a mapping submission that assigns one canonical field to
\* more than one source label is blocked: mapping_done and mapping_csv are left
\* as they were and the conflict is reported.
C1_ConflictBlocksMapping ==
    [][ (event' = "mapping_submit" /\ ConflictIn(mapped_choices'))
          => /\ mapping_done' = mapping_done
             /\ mapping_csv' = mapping_csv
             /\ "mapping_conflict" \in msgs' ]_vars

\* C2: every row in the quotations table has, after the fallback fill,
\* non-empty project, supplier, enquirer, item name, currency and enquiry date
\* and at least one non-empty price; and no row that satisfies all of these is
\* in the rejected set, whatever its brand.
C2_StoredRowsComplete ==
    /\ \A i \in DOMAIN store : RowComplete(store[i])
    /\ \A i \in DOMAIN df_invalid : ~RowComplete(df_invalid[i])

\* C2 witness: a committed row without brand and without unit price (its labor
\* unit price is given).
C2_Witness ==
    /\ "import_ok" \in msgs
    /\ \E i \in DOMAIN Appended :
          EmptyC(Appended[i]["brand"]) /\ EmptyC(Appended[i]["unit_price"])

\* C3: the fallback fill leaves every cell of a global field that was
\* non-empty, and every cell of any other field, exactly as it was staged.
C3_FillNeverOverwrites ==
    Validated =>
        /\ Len(df_final) = Len(Staged)
        /\ \A r \in DOMAIN Staged : \A c \in DBFields :
              (c \notin GlobalFields \/ ~EmptyC(Staged[r][c]))
                  => df_final[r][c] = Staged[r][c]

\* C3 witness: a fill that set an empty project while the same row's currency,
\* different from the global currency, was given in the sheet.
C3_Witness ==
    /\ Validated
    /\ \E r \in DOMAIN Staged :
          /\ EmptyC(Staged[r]["project"])
          /\ df_final[r]["project"] = bulk_values.project
          /\ ~EmptyC(Staged[r]["currency"])
          /\ Staged[r]["currency"] # bulk_values.currency
          /\ bulk_values.currency # <<>>

\* C4: applying the fallback fill to the filled rows again changes nothing.
C4_FillIdempotent ==
    Validated => apply_fill(df_final, bulk_values, CurrencyRequired) = df_final

\* C4 witness: a fill of two staged rows that both lacked project and currency.
C4_Witness ==
    /\ Validated
    /\ Len(Staged) = 2
    /\ \A r \in DOMAIN Staged :
          /\ EmptyC(Staged[r]["project"]) /\ EmptyC(Staged[r]["currency"])
          /\ ~EmptyC(df_final[r]["project"]) /\ ~EmptyC(df_final[r]["currency"])

\* A required global of the submitted form is blank.
BlankSubmission(form) ==
    \/ Blank(form.project) \/ Blank(form.supplier)
    \/ Blank(form.enquirer) \/ Blank(form.date)
    \/ (CurrencyRequired /\ Blank(form.currency))

\* C5 (as claimed): a globals submission with a blank required global is
\* blocked: the stored globals and the table are unchanged, no fill or
\* validation runs, and an error is reported.
C5_BlankGlobalsBlocked ==
    [][ (event' = "apply_global" /\ BlankSubmission(g_form'))
          => /\ bulk_values' = bulk_values
             /\ store' = store
             /\ df_final' = <<>>
             /\ msgs' \cap {"globals_missing", "currency_missing"} # {} ]_vars

\* C6: the table is appended to only in a page run that accepts a globals
\* submission, and only when an earlier run confirmed a mapping whose staged
\* rows the session still holds.
C6_AppendAfterMappingAndGlobals ==
    [][ store' # store
          => /\ mapping_done
             /\ mapping_csv # NoCsv
             /\ mapping_csv' = mapping_csv
             /\ event' = "apply_global"
             /\ "globals_applied" \in msgs'
             /\ ~bulk_applied' ]_vars

\* C6 witness: a commit has appended rows.
C6_Witness == store # <<>> /\ "import_ok" \in msgs /\ imported_count > 0

\* C7 (as claimed): after a successful commit the session holds no staged rows.
C7_StagedDiscardedOnCommit ==
    ("import_ok" \in msgs) => mapping_csv = NoCsv

\* C8: when the append raises, the table is as it was before the run, nothing
\* counts as imported, the error is reported, and the rejected rows are those
\* of the validation, still offered for download.
C8_PersistErrorKeepsStore ==
    [][ ("import_error" \in msgs')
          => /\ store' = store
             /\ imported_count' = 0
             /\ df_invalid' = df_invalid_of(df_final')
             /\ (df_invalid' # <<>> => "invalid_warning" \in msgs') ]_vars

\* C8 witness: a failed append in a run that also rejected rows, on a table
\* that already holds rows.
C8_Witness ==
    /\ "import_error" \in msgs
    /\ df_invalid # <<>>
    /\ store # <<>>

\* Every filled row is in exactly one of the accepted and the rejected rows.
IsPartition ==
    /\ Len(df_valid) + Len(df_invalid) = Len(df_final)
    /\ \A i \in DOMAIN df_final :
          InSeq(df_final[i], df_valid) # InSeq(df_final[i], df_invalid)

\* C9 (as claimed): validation partitions the filled rows, and each of them is
\* stored by the commit or is in the rejected set.
C9_NoRowLost ==
    Validated =>
        /\ IsPartition
        /\ \A i \in DOMAIN df_final :
              InSeq(df_final[i], Appended) \/ InSeq(df_final[i], df_invalid)

\* C9 (amended): validation partitions the filled rows; when the append does
\* not raise, each of them is stored by the commit or is in the rejected set;
\* when it raises, nothing is stored, the error is reported and the accepted
\* rows are in neither.
C9_NoRowLostUnlessPersistError ==
    Validated =>
        /\ IsPartition
        /\ ("import_error" \notin msgs =>
               \A i \in DOMAIN df_final :
                   InSeq(df_final[i], Appended) \/ InSeq(df_final[i], df_invalid))
        /\ ("import_error" \in msgs =>
               /\ imported_count = 0
               /\ df_valid # <<>>
               /\ \A i \in DOMAIN df_valid : ~InSeq(df_valid[i], df_invalid))

\* C9 witness: a batch committed in part: one row stored, one rejected.
C9_Witness ==
    /\ Validated
    /\ "import_ok" \in msgs
    /\ imported_count > 0
    /\ df_invalid # <<>>

\* The required-field constraints a row fails.
FailingConstraints(row) ==
    { c \in { "project", "supplier", "enquirer", "item_name", "currency",
              "enquiry_date" } : EmptyC(row[c]) }
    \cup (IF EmptyC(row["unit_price"]) /\ EmptyC(row["labor_unit_price"])
          THEN {"price"} ELSE {})

\* C10 (as claimed): every rejected row carries the list of the constraints it
\* fails.
C10_RejectedRowsCarryReasons ==
    \A i \in DOMAIN df_invalid :
        /\ "failing" \in DOMAIN df_invalid[i]
        /\ df_invalid[i]["failing"] = FailingConstraints(df_invalid[i])

\* The four text globals of a form are all given and not blank.
NonBlankGlobals(form) ==
    /\ ~Blank(form.project) /\ ~Blank(form.supplier)
    /\ ~Blank(form.enquirer) /\ ~Blank(form.date)

\* C11: need_global_currency is true exactly when some staged row has an empty
\* currency; a submission of non-blank globals is refused for its missing
\* currency when some staged currency is empty, and is accepted without any
\* currency when none is.
C11_CurrencyRequiredIffEmpty ==
    [][ (event' = "apply_global" /\ mapping_csv # NoCsv /\ show_global_form
            /\ NonBlankGlobals(g_form'))
          => /\ column_has_empty_currency(Staged) <=> CurrencyRequired
             /\ (CurrencyRequired /\ Blank(g_form'.currency))
                    => ("currency_missing" \in msgs' /\ store' = store)
             /\ ~CurrencyRequired
                    => ("globals_applied" \in msgs' /\ g_form'.currency = PyNone) ]_vars

\* C11 witness: every staged row has a currency, globals were submitted without
\* a currency, and the submission was applied and its rows imported.
C11_Witness ==
    /\ Staged # <<>>
    /\ ~CurrencyRequired
    /\ event = "apply_global"
    /\ g_form.currency = PyNone
    /\ "globals_applied" \in msgs
    /\ "import_ok" \in msgs

\* The normalised form of a label, as the specification defines it: trimmed,
\* lower-cased, runs of separators collapsed to one space, trimmed again; a
\* missing label has the empty form.
NormalForm(x) ==
    IF x \in {Null, PyNone} THEN <<>> ELSE normalize_header(lower(strip(x)))

\* The alias substring-matches the label (the test of the third tier).
SubstringMatch(k, label) ==
    is_substring(lower(k), lower(label)) \/ is_substring(lower(label), lower(k))

\* C12: a label whose normalised form equals that of an alias (in particular a
\* label that equals the alias case-insensitively) resolves to the canonical
\* field of that alias, whatever other aliases substring-match the label.
C12_ExactBeatsSubstring ==
    (auto_val # NotCalled /\ orig_header \notin {Null, PyNone})
        => \A i \in DOMAIN HEADER_SYNONYMS :
              NormalForm(orig_header) = NormalForm(HEADER_SYNONYMS[i].k)
                  => auto_val = HEADER_SYNONYMS[i].v

\* C12 witness: the label equals an alias case-insensitively, an alias of
\* another field that comes earlier in the table is a substring of it, and the
\* label resolved to the field of the alias it equals.
C12_Witness ==
    /\ auto_val # NotCalled
    /\ orig_header \notin {Null, PyNone}
    /\ \E j \in DOMAIN HEADER_SYNONYMS : \E i \in 1..(j - 1) :
          /\ lower(orig_header) = lower(HEADER_SYNONYMS[j].k)
          /\ SubstringMatch(HEADER_SYNONYMS[i].k, orig_header)
          /\ HEADER_SYNONYMS[i].v # HEADER_SYNONYMS[j].v
          /\ auto_val = HEADER_SYNONYMS[j].v

\* C13 (as claimed): every label with the same normalised form as the resolved
\* label resolves to the same result.
C13_SameNormalFormSameField ==
    (auto_val # NotCalled /\ orig_header \notin {Null, PyNone})
        => \A h2 \in HeaderInputs \ {Null, PyNone} :
              NormalForm(h2) = NormalForm(orig_header)
                  => auto_map_header(h2) = auto_val

\* A label that is missing, empty, or nothing but white space.
BlankLabel(x) == x \in {Null, PyNone} \/ strip(x) = <<>>

\* auto_defaults[col] for a column whose label resolved to auto_val.
auto_default_of(resolved) ==
    IF resolved # Unresolved /\ (\E i \in DOMAIN mapping_targets : mapping_targets[i] = resolved)
    THEN resolved ELSE "Ignore"

\* C14 (as claimed): a blank label is unresolved, and its column is suggested
\* as ignored.
C14_BlankLabelUnresolved ==
    (auto_val # NotCalled /\ BlankLabel(orig_header))
        => (auto_val = Unresolved /\ auto_default_of(auto_val) = "Ignore")

\* Every candidate of the previewed rows, in the order of the scan.
AllCandidates ==
    LET order == scan_order(Len(df_preview))
    IN  SelectSeq([ i \in DOMAIN order |->
                      candidate(df_preview, Len(df_preview[1]),
                                order[i].start, order[i].rows_used) ],
                  LAMBDA c : TRUE)

\* The best-scoring candidate: none scores higher, and every candidate seen
\* before it scores lower.
IsBestOf(i, cs) ==
    /\ \A j \in DOMAIN cs : cs[j].score2 <= cs[i].score2
    /\ \A j \in 1..(i - 1) : cs[j].score2 < cs[i].score2

\* The acceptance gate of the specification.
Gate(c) ==
    c.mapped >= 2 \/ (c.nonempty > 0 /\ 10 * c.mapped >= 3 * c.nonempty)

\* C15: the detector returns the labels and the last row of the best-scoring
\* candidate when that candidate has resolved_count >= 2, or nonempty_count > 0
\* and resolved_count / nonempty_count >= 0.3, and (None, None) otherwise; it
\* returns (None, None) for an empty grid and for a grid none of whose
\* candidates has a resolved label.
C15_AcceptanceGate ==
    detected.status # "not_called" =>
        IF df_preview = <<>> THEN detected = NoHeader
        ELSE \E cs \in { AllCandidates } :
                /\ \E i \in DOMAIN cs :
                      /\ IsBestOf(i, cs)
                      /\ IF Gate(cs[i])
                         THEN detected = [ status |-> "header", header |-> cs[i].header,
                                           row |-> cs[i].row + cs[i].rows_used - 1 ]
                         ELSE detected = NoHeader
                /\ (\A i \in DOMAIN cs : cs[i].mapped = 0) => detected = NoHeader

\* C15 witness: the best candidate has one resolved label among four non-blank
\* ones, and no header is reported.
C15_Witness ==
    /\ detected.status = "none"
    /\ df_preview # <<>>
    /\ \E cs \in { AllCandidates } : \E i \in DOMAIN cs :
          IsBestOf(i, cs) /\ cs[i].mapped = 1 /\ cs[i].nonempty = 4

\* The row holds at least two labels that resolve to canonical fields.
ResolvableHeaderRow(row) ==
    Cardinality({ col \in DOMAIN row :
        ~BlankLabel(row[col]) /\ auto_map_header(row[col]) # Unresolved }) >= 2

\* C16 (as claimed): when rows 0 and 1 are title or blank rows, row 2 holds at
\* least two resolvable labels and the rows below it are data rows, the
\* detector reports a header that ends at row 2.
C16_HeaderEndsAtRowTwo ==
    (/\ detected.status # "not_called"
     /\ Len(df_preview) > 3
     /\ df_preview[1] \in TitleRows
     /\ df_preview[2] \in TitleRows
     /\ ResolvableHeaderRow(df_preview[3])
     /\ \A r \in 4..Len(df_preview) : df_preview[r] \in DataRows)
        => (detected.status = "header" /\ detected.row = 2)

\* The canonical fields to which the confirmed mapping assigns a source column.
AssignedFields ==
    { mapping_rename_dict[l] : l \in DOMAIN mapping_rename_dict }

\* C17 (as claimed): in the staged rows, every canonical field other than
\* entered-by and region to which no source column was assigned is null in
\* every row, also when the only source column bearing the field's name was
\* ignored; entered-by and region are the calling user's identity.
C17_UnassignedFieldsNull ==
    mapping_csv # NoCsv =>
        \A r \in DOMAIN Staged :
            /\ \A c \in DBFields \ {"entered_by", "region"} :
                  c \notin AssignedFields => Staged[r][c] = Null
            /\ Staged[r]["entered_by"] = user.username
            /\ Staged[r]["region"] = user.region

\* The part of C17 about the caller identity alone.
C17_IdentityFromCaller ==
    mapping_csv # NoCsv =>
        \A r \in DOMAIN Staged :
            /\ Staged[r]["entered_by"] = user.username
            /\ Staged[r]["region"] = user.region

\* C18: the rows appended to the store by one commit contain no two rows that
\* are equal in every field.
C18_NoDuplicateAppended ==
    imported_count > 0 =>
        \A i, j \in DOMAIN Appended : Appended[i] = Appended[j] => i = j

\* C18 witness: two accepted rows of one import are equal in every field, the
\* commit succeeded, and the row is in the appended rows exactly once.
C18_Witness ==
    /\ "import_ok" \in msgs
    /\ \E i, j \in DOMAIN df_valid :
          /\ i < j
          /\ df_valid[i] = df_valid[j]
          /\ Cardinality({ k \in DOMAIN Appended : Appended[k] = df_valid[i] }) = 1

\* The step is a submission of the delete form.
DeleteSubmitted == delete_choices # {} /\ delete_choices' = {}

DiscrepancyWarnings == { "rowcount_zero", "verify_remaining", "verify_failed" }

\* C20 (as claimed): after the DELETE, whenever the affected-row count differs
\* from the number of selected rowids, a discrepancy warning is reported
\* instead of a plain success message.
C20_CountMismatchWarned ==
    (/\ \E i \in DOMAIN sql_log : sql_log[i] = "DELETE"
     /\ "delete_error" \notin admin_msgs
     /\ deleted_count # Cardinality(selected_rowids))
        => /\ "deleted" \notin admin_msgs
           /\ admin_msgs \cap DiscrepancyWarnings # {}

\* The reports one of which every validation and import pass makes.
PassReports == { "no_valid", "import_ok", "import_error", "nothing_importable" }

\* C21: bulk_applied is false at the end of every page run that performed the
\* validation pass; a page run that does not accept a globals submission
\* performs no pass and appends nothing to the table, and a run that does
\* appends once, the rows it counts as imported.
C21_OneAppendPerSubmission ==
    [][ /\ (msgs' \cap PassReports # {}) => ~bulk_applied'
        /\ (event' # "apply_global" \/ "globals_applied" \notin msgs')
              => (store' = store /\ msgs' \cap PassReports = {})
        /\ Len(store') = Len(store) + imported_count'
        /\ SubSeq(store', 1, Len(store)) = store ]_vars

\* C21 witness: after a commit the page was run again by another interaction;
\* the flag is false, no pass ran and the table still holds the committed rows.
C21_Witness ==
    /\ event = "rerun"
    /\ mapping_csv # NoCsv
    /\ show_global_form
    /\ store # <<>>
    /\ ~bulk_applied
    /\ imported_count = 0
    /\ msgs \cap PassReports = {}

====
